---------------------------- MODULE Spec2Model ----------------------------
(***************************************************************************)
(* Canteen: a mio reactor (Canteen::ready / Canteen::notify), its          *)
(* per-connection Client buffers, the route registry with its resolution   *)
(* cache (Canteen::add_route / Canteen::handle_request) and the template   *)
(* compiler and matcher of route.rs (Route::new / is_match / parse).       *)
(*                                                                         *)
(* Strings are sequences of one-character strings: "/a" is <<"/", "a">>.   *)
(***************************************************************************)
EXTENDS Integers, Sequences, FiniteSets, TLC

(***************************************************************************)
(* Bounds of the model.                                                    *)
(***************************************************************************)
\* longest request path drawn for the route matcher
MaxPathLen == 4
\* route definitions the registry may hold
MaxRoutes == 2
\* slots of the connection slab
SlabCap == 2
\* connections given a Client in one run of the server
MaxAccepts == 2
\* longest response a handler produces, in bytes
MaxOutLen == 2
\* socket writes one call of Client::send may issue
MaxWrites == 2
\* messages the event loop's notify queue holds (notify_capacity)
NotifyCapacity == 1

VARIABLES
    phase,      \* "setup", "running", "panicked" (reactor thread unwound), "spinning"
    routes,     \* Canteen.routes: RouteDef -> Route
    order,      \* iteration order of the routes HashMap in this run
    rcache,     \* Canteen.rcache: RouteDef of the request -> RouteDef of the route
    default,    \* Canteen.default
    conns,      \* Canteen.conns: token -> Client
    lstArmed,   \* the listener's one-shot registration is pending
    tpool,      \* closures handed to the thread pool, not yet finished
    channel,    \* (token, bytes) messages sent to the event loop, not yet notified
    accepted,   \* Clients made so far (names each connection)
    lastOp,     \* history: the operation that produced this state, with its inputs
    rt          \* the route under test of SpecRoute

vars == <<phase, routes, order, rcache, default, conns, lstArmed,
          tpool, channel, accepted, lastOp, rt>>

serverVars == <<phase, routes, order, rcache, default, conns, lstArmed,
                tpool, channel, accepted, lastOp>>

(***************************************************************************)
(* Characters.                                                             *)
(***************************************************************************)
Digits == {"0", "1", "2", "3", "4", "5", "6", "7", "8", "9"}

Letters ==
    {"a", "b", "c", "d", "e", "f", "g", "h", "i", "j", "k", "l", "m",
     "n", "o", "p", "q", "r", "s", "t", "u", "v", "w", "x", "y", "z"}

\* [a-zA-Z0-9_] and \w, over the characters the model draws
WordChars == Letters \cup Digits \cup {"_"}

\* the characters request paths are drawn from
Alphabet == {"/", "a", "1", "-", "."}

(***************************************************************************)
(* Sequence helpers.                                                       *)
(***************************************************************************)
Range(s) == {s[i] : i \in 1..Len(s)}

StrOfLen(n) == [1..n -> Alphabet]

Paths == UNION {StrOfLen(n) : n \in 0..MaxPathLen}

\* Rust's str::split('/'): the pieces between the slashes, empty ones included
RECURSIVE split(_, _)
split(s, cur) ==
    IF s = <<>> THEN <<cur>>
    ELSE IF Head(s) = "/" THEN <<cur>> \o split(Tail(s), <<>>)
    ELSE split(Tail(s), Append(cur, Head(s)))

\* .filter(|&s| s != "")
RECURSIVE filter_nonempty(_)
filter_nonempty(parts) ==
    IF parts = <<>> THEN <<>>
    ELSE IF Head(parts) = <<>> THEN filter_nonempty(Tail(parts))
    ELSE <<Head(parts)>> \o filter_nonempty(Tail(parts))

(***************************************************************************)
(* The regular expressions Route::new assembles.  A compiled matcher is a  *)
(* sequence of items; an item is a character class with a quantifier and   *)
(* the name of the capture group it lies in (<<>> outside any group).      *)
(* A class is [neg, set]: it accepts c iff (c \in set) # neg.              *)
(***************************************************************************)
Lit(c) == [neg |-> FALSE, set |-> {c}]
\* '.' of the regex crate: any character but the newline
Dot == [neg |-> TRUE, set |-> {"\n"}]
NotSlash == [neg |-> TRUE, set |-> {"/"}]
DigitCls == [neg |-> FALSE, set |-> Digits]

Accepts(cls, c) == (c \in cls.set) # cls.neg

Item(cls, q, g) == [cls |-> cls, q |-> q, g |-> g]

\* a template's plain segment is pushed into the pattern unescaped
\* ("/" + part): of the characters drawn here only '.' is a metacharacter
LiteralAtom(c) == IF c = "." THEN Dot ELSE Lit(c)

LiteralChunk(part) ==
    <<Item(Lit("/"), "1", <<>>)>>
        \o [i \in 1..Len(part) |-> Item(LiteralAtom(part[i]), "1", <<>>)]

\* mstr for each ParamType, wrapped in "/(?P<name>" ... ")"
ParamChunk(ptype, name) ==
    <<Item(Lit("/"), "1", <<>>)>> \o
    CASE ptype = "String"  -> <<Item(NotSlash, "+", name)>>
      [] ptype = "Integer" -> <<Item(Lit("-"), "*", name), Item(DigitCls, "+", name)>>
      [] ptype = "Float"   -> <<Item(Lit("-"), "*", name), Item(DigitCls, "*", name),
                                Item(Lit("."), "?", name), Item(DigitCls, "+", name)>>
      [] ptype = "Path"    -> <<Item(Dot, "+", name)>>

IsName(s) ==
    /\ s # <<>>
    /\ \A i \in 1..Len(s) : s[i] \in WordChars

TypeWords ==
    {<<"i", "n", "t">>, <<"s", "t", "r">>, <<"f", "l", "o", "a", "t">>,
     <<"p", "a", "t", "h">>}

ParamTypeOf(word) ==
    CASE word = <<"i", "n", "t">> -> "Integer"
      [] word = <<"f", "l", "o", "a", "t">> -> "Float"
      [] word = <<"p", "a", "t", "h">> -> "Path"
      [] OTHER -> "String"

\* re = ^<(?:(int|str|float|path):)?([\w_][a-zA-Z0-9_]*)>$ applied to one part:
\* [ok, ptype, name]
Placeholder(part) ==
    LET n == Len(part)
        inner == IF n >= 2 THEN SubSeq(part, 2, n - 1) ELSE <<>>
        typed == {w \in TypeWords :
                     /\ Len(inner) > Len(w) + 1
                     /\ SubSeq(inner, 1, Len(w)) = w
                     /\ inner[Len(w) + 1] = ":"
                     /\ IsName(SubSeq(inner, Len(w) + 2, Len(inner)))}
    IN  IF n < 3 \/ part[1] # "<" \/ part[n] # ">"
        THEN [ok |-> FALSE, ptype |-> "String", name |-> <<>>]
        ELSE IF typed # {}
        THEN LET w == CHOOSE x \in typed : TRUE
             IN  [ok |-> TRUE, ptype |-> ParamTypeOf(w),
                  name |-> SubSeq(inner, Len(w) + 2, Len(inner))]
        ELSE IF IsName(inner)
        THEN [ok |-> TRUE, ptype |-> "String", name |-> inner]
        ELSE [ok |-> FALSE, ptype |-> "String", name |-> <<>>]

RECURSIVE Chunks(_)
Chunks(parts) ==
    IF parts = <<>> THEN <<>>
    ELSE LET ph == Placeholder(Head(parts))
         IN  (IF ph.ok THEN ParamChunk(ph.ptype, ph.name)
                       ELSE LiteralChunk(Head(parts)))
             \o Chunks(Tail(parts))

RECURSIVE ParamsOf(_)
ParamsOf(parts) ==
    IF parts = <<>> THEN {}
    ELSE LET ph == Placeholder(Head(parts))
         IN  (IF ph.ok THEN {ph.name} ELSE {}) \cup ParamsOf(Tail(parts))

\* Route::new: "^" chunk* "/?$"
RouteNew(path, methods, handler) ==
    LET parts == filter_nonempty(split(path, <<>>))
    IN  [matcher |-> Chunks(parts) \o <<Item(Lit("/"), "?", <<>>)>>,
         params  |-> ParamsOf(parts),
         methods |-> methods,
         handler |-> handler]

(***************************************************************************)
(* Matching: leftmost-first (greedy, backtracking) from position 1 to the  *)
(* end of the text, as the anchors ^ and $ demand.  MatchAt returns the    *)
(* end positions of the items i..Len(items), or <<-1>> when no match.      *)
(***************************************************************************)
NoMatch == <<-1>>

RECURSIVE RunLen(_, _, _)
\* how many characters of s from position j on the class accepts in a row
RunLen(cls, s, j) ==
    IF j > Len(s) \/ ~Accepts(cls, s[j]) THEN 0 ELSE 1 + RunLen(cls, s, j + 1)

MinCount(q) == IF q \in {"1", "+"} THEN 1 ELSE 0

MaxCount(q, run) ==
    IF q \in {"1", "?"} THEN (IF run > 0 THEN 1 ELSE 0) ELSE run

RECURSIVE MatchAt(_, _, _, _)
RECURSIVE TryCount(_, _, _, _, _)
TryCount(items, i, s, j, k) ==
    IF k < MinCount(items[i].q) THEN NoMatch
    ELSE LET rest == MatchAt(items, i + 1, s, j + k)
         IN  IF rest # NoMatch THEN <<j + k>> \o rest
             ELSE TryCount(items, i, s, j, k - 1)

MatchAt(items, i, s, j) ==
    IF i > Len(items)
    THEN (IF j = Len(s) + 1 THEN <<>> ELSE NoMatch)
    ELSE TryCount(items, i, s, j,
                  MaxCount(items[i].q, RunLen(items[i].cls, s, j)))

\* Regex::is_match
regex_is_match(matcher, text) == MatchAt(matcher, 1, text, 1) # NoMatch

\* Captures::name: the text the items of group g consumed
capture(matcher, text, g) ==
    LET ends == MatchAt(matcher, 1, text, 1)
        idx == {i \in 1..Len(matcher) : matcher[i].g = g}
        first == CHOOSE i \in idx : \A k \in idx : i <= k
        last == CHOOSE i \in idx : \A k \in idx : i >= k
        from == IF first = 1 THEN 1 ELSE ends[first - 1]
    IN  SubSeq(text, from, ends[last] - 1)

\* Route::is_match
is_match(route, req) ==
    regex_is_match(route.matcher, req.path) /\ req.method \in route.methods

\* Route::parse: Some(params) as [some |-> TRUE, map |-> ...], else None
None == [some |-> FALSE]
Some(v) == [some |-> TRUE, map |-> v]

parse(route, path) ==
    IF regex_is_match(route.matcher, path)
    THEN Some([g \in route.params |-> capture(route.matcher, path, g)])
    ELSE None


(***************************************************************************)
(* The registry: Canteen::new, add_route, set_default, run.                *)
(***************************************************************************)
Methods == {"GET", "POST"}

Handlers == {"h1", "h2"}

DefaultHandlers == {"err_404", "h0"}

\* templates the application registers: "/<n>", "/<n>/" and "/<int:n>"
Templates ==
    {<<"/", "<", "n", ">">>, <<"/", "<", "n", ">", "/">>,
     <<"/", "<", "i", "n", "t", ":", "n", ">">>}

\* paths requested of the router: "/1", "/a"
ReqPaths == {<<"/", "1">>, <<"/", "a">>}

\* method lists passed to add_route
MethodLists == {<<"GET">>, <<"POST">>, <<"GET", "POST">>, <<"GET", "GET">>}

RouteDef(pathdef, method) == [pathdef |-> pathdef, method |-> method]

Perms(S) == {s \in [1..Cardinality(S) -> S] : Range(s) = S}

EmptyMap == [x \in {} |-> x]

Idle == [pc |-> "idle"]

Op(op, tok, arg) == [op |-> op, tok |-> tok, arg |-> arg]

\* Token(1)
ListenerToken == 1

\* Slab::new_starting_at(Token(2), ..)
FirstToken == 2

\* state after Canteen::new(), bind() done
Init ==
    /\ phase = "setup"
    /\ routes = EmptyMap
    /\ order = <<>>
    /\ rcache = EmptyMap
    /\ default = "err_404"
    /\ conns = EmptyMap
    /\ lstArmed = FALSE
    /\ tpool = {}
    /\ channel = <<>>
    /\ accepted = 0
    /\ lastOp = Op("new", 0, <<>>)
    /\ rt = Idle

\* add_route_loop without the contains_key check: a second registration
\* replaces the first
RECURSIVE add_route_overwrite(_, _, _, _)
add_route_overwrite(rts, path, ms, handler) ==
    IF ms = <<>> THEN [panic |-> FALSE, routes |-> rts]
    ELSE LET rd == RouteDef(path, Head(ms))
             new == RouteNew(path, {Head(ms)}, handler)
         IN  add_route_overwrite([x \in DOMAIN rts \cup {rd} |->
                                     IF x = rd THEN new ELSE rts[x]],
                                 path, Tail(ms), handler)

\* the loop "for m in methods" of add_route over the HashSet in iteration
\* order ms: [panic, routes]
RECURSIVE add_route_loop(_, _, _, _)
add_route_loop(rts, path, ms, handler) ==
    IF ms = <<>> THEN [panic |-> FALSE, routes |-> rts]
    ELSE LET rd == RouteDef(path, Head(ms))
         IN  IF rd \in DOMAIN rts
             THEN [panic |-> TRUE, routes |-> rts]
             ELSE add_route_loop(rts @@ (rd :> RouteNew(path, {Head(ms)}, handler)),
                                 path, Tail(ms), handler)

add_route(path, mlist, handler) ==
    /\ phase = "setup"
    /\ Cardinality(DOMAIN routes \cup {RouteDef(path, m) : m \in Range(mlist)})
          <= MaxRoutes
    /\ \E ms \in Perms(Range(mlist)) :
          LET r == add_route_loop(routes, path, ms, handler)
          IN  /\ routes' = r.routes
              /\ phase' = IF r.panic THEN "panicked" ELSE "setup"
    /\ lastOp' = Op("add_route", 0,
                    [path |-> path, methods |-> Range(mlist), handler |-> handler])
    /\ UNCHANGED <<order, rcache, default, conns, lstArmed, tpool, channel,
                   accepted, rt>>

set_default(handler) ==
    /\ phase = "setup"
    /\ default' = handler
    /\ lastOp' = Op("set_default", 0, <<>>)
    /\ UNCHANGED <<phase, routes, order, rcache, conns, lstArmed, tpool, channel,
                   accepted, rt>>

\* Canteen::run: the listener is registered and the event loop starts; from
\* here on the HashMap is only read, so its iteration order is one fixed
\* permutation of its keys, drawn by the RandomState of this run
run ==
    /\ phase = "setup"
    /\ phase' = "running"
    /\ order' \in Perms(DOMAIN routes)
    /\ lstArmed' = TRUE
    /\ lastOp' = Op("run", 0, <<>>)
    /\ UNCHANGED <<routes, rcache, default, conns, tpool, channel, accepted, rt>>

(***************************************************************************)
(* Client: the per-connection buffers.  i_buf is the sequence of chunks    *)
(* read so far, o_buf a sequence of bytes.  armed is the interest set of   *)
(* the pending one-shot registration ({} once it has fired).  id names the *)
(* connection (the n-th accepted), src the connection whose request        *)
(* produced the bytes now in o_buf (0: none).                              *)
(***************************************************************************)
\* Client::new
ClientNew(id) ==
    [id |-> id, events |-> {"hup"}, i_buf |-> <<>>, o_buf |-> <<>>,
     armed |-> {}, src |-> 0]

\* Client::register
client_register(c) ==
    LET ev == c.events \cup {"readable"}
    IN  [c EXCEPT !.events = ev, !.armed = ev]

\* Client::reregister
client_reregister(c) == [c EXCEPT !.armed = c.events]

\* what the socket hands to one call of Client::receive: the chunks read and
\* how the reading ends (Ok(None) is "WouldBlock"; at end of stream read()
\* keeps returning Ok(Some(0)))
Chunk(k, path, method) == [k |-> k, path |-> path, method |-> method]

\* the requests the clients of the reactor send: GET /1 and POST /1
ClientRequests == {RouteDef(<<"/", "1">>, m) : m \in Methods}

ChunkSeqs ==
    {<<>>, <<Chunk("bad", <<>>, "GET")>>, <<Chunk("junk", <<>>, "GET")>>}
    \cup {<<Chunk("full", q.pathdef, q.method)>> : q \in ClientRequests}
    \cup {<<Chunk("head", q.pathdef, q.method)>> : q \in ClientRequests}
    \cup {<<Chunk("head", q.pathdef, q.method), Chunk("tail", <<>>, q.method)>>
              : q \in ClientRequests}

ReadEnds == {"WouldBlock", "Err", "Eof"}

\* receive without events.remove(EventSet::readable())
receive_keep_readable(c, chunks, end) ==
    IF end = "Eof"
    THEN [hang |-> TRUE, ret |-> FALSE, client |-> c]
    ELSE [hang |-> FALSE,
          ret |-> Len(chunks) > 0,
          client |-> [c EXCEPT !.i_buf = c.i_buf \o chunks,
                               !.events = c.events \cup {"writable"}]]

\* Client::receive: [hang, ret, client]
receive(c, chunks, end) ==
    IF end = "Eof"
    THEN [hang |-> TRUE, ret |-> FALSE, client |-> c]
    ELSE [hang |-> FALSE,
          ret |-> Len(chunks) > 0,
          client |-> [c EXCEPT !.i_buf = c.i_buf \o chunks,
                               !.events = (c.events \ {"readable"}) \cup {"writable"}]]

\* what the socket answers to the writes of one call of Client::send:
\* Ok(n) as [k |-> "Ok", n |-> n], Err(e) as [k |-> "WouldBlock" or "Err"]
WriteResult(k, n) == [k |-> k, n |-> n]

WriteResults(len) ==
    UNION {[1..n -> {WriteResult("Ok", sz) : sz \in 0..len}
                    \cup {WriteResult("WouldBlock", 0), WriteResult("Err", 0)}]
           : n \in 1..MaxWrites}

\* the while loop of Client::send over the write results ws:
\* [done, used, o_buf, events, wrote, end]; done is FALSE when ws runs out
\* before the loop ends
RECURSIVE send_loop(_, _, _, _, _)
send_loop(o_buf, events, ws, used, wrote) ==
    IF o_buf = <<>>
    THEN [done |-> TRUE, used |-> used, o_buf |-> o_buf, events |-> events,
          wrote |-> wrote, end |-> "Full"]
    ELSE IF used = Len(ws)
    THEN [done |-> FALSE, used |-> used, o_buf |-> o_buf, events |-> events,
          wrote |-> wrote, end |-> "More"]
    ELSE LET r == ws[used + 1]
         IN  IF r.k # "Ok"
             THEN [done |-> TRUE, used |-> used + 1, o_buf |-> o_buf,
                   events |-> events, wrote |-> wrote, end |-> r.k]
             ELSE IF r.n = Len(o_buf)
             THEN [done |-> TRUE, used |-> used + 1, o_buf |-> o_buf,
                   events |-> events \ {"writable"},
                   wrote |-> wrote \o o_buf, end |-> "Full"]
             ELSE IF r.n > Len(o_buf)
             THEN [done |-> FALSE, used |-> used, o_buf |-> o_buf,
                   events |-> events, wrote |-> wrote, end |-> "More"]
             ELSE send_loop(SubSeq(o_buf, r.n + 1, Len(o_buf)), events, ws,
                            used + 1, wrote \o SubSeq(o_buf, 1, r.n))

\* send that reports an empty buffer as done: Ok(true)
send_empty_done(c, ws) ==
    IF c.o_buf = <<>>
    THEN [ret |-> TRUE, client |-> c, wrote |-> <<>>, end |-> "Empty"]
    ELSE LET r == send_loop(c.o_buf, c.events, ws, 0, <<>>)
         IN  [ret |-> TRUE,
              client |-> [c EXCEPT !.o_buf = r.o_buf, !.events = r.events],
              wrote |-> r.wrote, end |-> r.end]

\* Client::send: [ret, client, wrote, end]; ret is the bool of Ok(..)
send(c, ws) ==
    IF c.o_buf = <<>>
    THEN [ret |-> FALSE, client |-> c, wrote |-> <<>>, end |-> "Empty"]
    ELSE LET r == send_loop(c.o_buf, c.events, ws, 0, <<>>)
         IN  [ret |-> TRUE,
              client |-> [c EXCEPT !.o_buf = r.o_buf, !.events = r.events],
              wrote |-> r.wrote, end |-> r.end]

\* the write results are those of a call that ends after the last of them
SendEnds(c, ws) ==
    LET r == send_loop(c.o_buf, c.events, ws, 0, <<>>)
    IN  r.done /\ r.used = Len(ws)

(***************************************************************************)
(* Resolution: Canteen::handle_request.                                    *)
(***************************************************************************)
NoRoute == [pathdef |-> <<>>, method |-> "none"]

\* String::from_utf8(buf)
from_utf8_ok(buf) == \A i \in 1..Len(buf) : buf[i].k # "bad"

\* Request::from_str: Ok when the text holds a complete well-formed request
\* (what follows it is taken for its body), else Err
from_str(buf) ==
    LET kinds == [i \in 1..Len(buf) |-> buf[i].k]
    IN  IF \/ (Len(kinds) >= 1 /\ kinds[1] = "full")
           \/ (Len(kinds) >= 2 /\ kinds[1] = "head" /\ kinds[2] = "tail")
        THEN [ok |-> TRUE, path |-> buf[1].path, method |-> buf[1].method,
              params |-> None]
        ELSE [ok |-> FALSE, path |-> <<>>, method |-> "none", params |-> None]

\* scan without the break: the last match wins
RECURSIVE scan_last(_, _, _)
scan_last(rts, keys, req) ==
    IF keys = <<>> THEN NoRoute
    ELSE LET later == scan_last(rts, Tail(keys), req)
         IN  IF later # NoRoute THEN later
             ELSE IF is_match(rts[Head(keys)], req) THEN Head(keys)
             ELSE NoRoute

\* "for (path, route) in &self.routes { if route.is_match(&req) { .. break } }"
\* over the keys in iteration order: the first match, or NoRoute
RECURSIVE scan(_, _, _)
scan(rts, keys, req) ==
    IF keys = <<>> THEN NoRoute
    ELSE IF is_match(rts[Head(keys)], req) THEN Head(keys)
    ELSE scan(rts, Tail(keys), req)

\* the built-in 404 handler in place of self.default
initial_handler_404(dflt) == "err_404"

\* "let mut handler = self.default"
initial_handler(dflt) == dflt

\* a cache entry that names the first route iterated, not the one matched
cache_insert_first(cache, key, rd) == cache @@ (key :> order[1])

\* a cache that holds the latest resolution only
cache_insert_latest(cache, key, rd) == (key :> rd)

\* the cache entry written for a request resolved by the scan
cache_insert(cache, key, rd) == cache @@ (key :> rd)

\* Canteen::handle_request up to tpool.execute:
\* [panic, rcache, task]; the task is the closure's captured state
handle_request(token, id, buf) ==
    LET req == from_str(buf)
        key == RouteDef(req.path, req.method)
    IN  IF ~req.ok
        THEN [panic |-> TRUE, rcache |-> rcache, task |-> <<>>]
        ELSE IF key \in DOMAIN rcache
        THEN LET route == routes[rcache[key]]
             IN  [panic |-> FALSE, rcache |-> rcache,
                  task |-> [token |-> token, id |-> id, key |-> key,
                            handler |-> route.handler,
                            params |-> parse(route, req.path),
                            rd |-> rcache[key], hit |-> TRUE]]
        ELSE LET rd == scan(routes, order, req)
             IN  IF rd # NoRoute
                 THEN [panic |-> FALSE, rcache |-> cache_insert(rcache, key, rd),
                       task |-> [token |-> token, id |-> id, key |-> key,
                                 handler |-> routes[rd].handler,
                                 params |-> parse(routes[rd], req.path),
                                 rd |-> rd, hit |-> FALSE]]
                 ELSE [panic |-> FALSE, rcache |-> rcache,
                       task |-> [token |-> token, id |-> id, key |-> key,
                                 handler |-> initial_handler(default),
                                 params |-> req.params,
                                 rd |-> NoRoute, hit |-> FALSE]]

(***************************************************************************)
(* The reactor: Handler::ready and Handler::notify, and the pool's workers.*)
(***************************************************************************)
LiveIds == {conns[t].id : t \in DOMAIN conns}

Without(f, t) == [x \in DOMAIN f \ {t} |-> f[x]]

\* Canteen::reset_connection
reset_connection(cs, token) == Without(cs, token)

\* the free slots of a slab that starts at the listener's token
FreeTokensFromListener ==
    (ListenerToken..(ListenerToken + SlabCap - 1)) \ DOMAIN conns

\* the slots insert_with may fill: those of the slab, from its first token on,
\* that hold no entry
FreeTokens == (FirstToken..(FirstToken + SlabCap - 1)) \ DOMAIN conns

\* the bytes gen_output() yields for a handler's Response
Outputs == {[i \in 1..n |-> i] : n \in 1..MaxOutLen}

EventSets(interest) == (SUBSET (interest \cup {"hup", "error"})) \ {{}}

\* Slab::remove of a token that names no entry: None, or, for a token below
\* the slab's first (token - offset underflows), a panic where the build
\* checks arithmetic
SlabRemoveOutcomes(token) ==
    IF token < FirstToken THEN {"None", "Panic"} ELSE {"None"}

\* events.is_error() || events.is_hup(): reset_connection(token) and return,
\* for the listener's token as for a connection's
ready_hup(token) ==
    /\ conns' = reset_connection(conns, token)
    /\ lstArmed' = IF token = ListenerToken THEN FALSE ELSE lstArmed
    /\ IF token \in DOMAIN conns
       THEN phase' = phase
       ELSE \E o \in SlabRemoveOutcomes(token) :
               phase' = IF o = "Panic" THEN "panicked" ELSE phase
    /\ lastOp' = Op("hup", token,
                    [id |-> IF token \in DOMAIN conns THEN conns[token].id ELSE 0])
    /\ UNCHANGED <<routes, order, rcache, default, tpool, channel, accepted, rt>>

\* readable on the listener: accept().unwrap(), insert_with, register,
\* reregister; with the slab full insert_with makes no Client and the socket
\* is dropped
ready_accept ==
    \E got \in BOOLEAN :
        IF ~got
        THEN /\ phase' = "panicked"
             /\ lstArmed' = FALSE
             /\ lastOp' = Op("accept", 0, [got |-> FALSE, full |-> FALSE])
             /\ UNCHANGED <<routes, order, rcache, default, conns, tpool,
                            channel, accepted, rt>>
        ELSE /\ lstArmed' = TRUE
             /\ IF FreeTokens = {}
                THEN /\ conns' = conns
                     /\ accepted' = accepted
                     /\ lastOp' = Op("accept", 0, [got |-> TRUE, full |-> TRUE])
                ELSE /\ accepted < MaxAccepts
                     /\ accepted' = accepted + 1
                     /\ \E t \in FreeTokens :
                           /\ conns' = conns @@ (t :> client_register(ClientNew(accepted + 1)))
                           /\ lastOp' = Op("accept", t, [got |-> TRUE, full |-> FALSE])
             /\ UNCHANGED <<phase, routes, order, rcache, default, tpool,
                            channel, rt>>

\* what the bytes read amount to: "none", "bad", "junk", "full", "head"
\* (a truncated request) or "split" (a request read in two pieces)
InputKind(chunks) ==
    IF chunks = <<>> THEN "none"
    ELSE IF Len(chunks) = 2 THEN "split"
    ELSE chunks[1].k

\* readable on a connection: Canteen::readable, then Client::reregister
ready_readable(token) ==
    /\ \E chunks \in ChunkSeqs, end \in ReadEnds :
          LET r == receive([conns[token] EXCEPT !.armed = {}], chunks, end)
              buf == r.client.i_buf
              hr == handle_request(token, r.client.id, buf)
              disp == ~r.hang /\ r.ret /\ from_utf8_ok(buf) /\ ~hr.panic
              in == [id |-> r.client.id, kind |-> InputKind(chunks), end |-> end,
                     disp |-> disp]
          IN  /\ lastOp' = Op("readable", token, in)
              /\ IF r.hang
                 THEN /\ phase' = "spinning"
                      /\ conns' = [conns EXCEPT ![token] = r.client]
                      /\ UNCHANGED <<rcache, tpool>>
                 ELSE IF r.ret /\ from_utf8_ok(buf) /\ hr.panic
                 THEN /\ phase' = "panicked"
                      /\ conns' = [conns EXCEPT ![token] = r.client]
                      /\ UNCHANGED <<rcache, tpool>>
                 ELSE IF r.ret /\ from_utf8_ok(buf)
                 THEN /\ phase' = phase
                      /\ rcache' = hr.rcache
                      /\ tpool' = tpool \cup {hr.task}
                      /\ conns' = [conns EXCEPT ![token] = client_reregister(r.client)]
                 ELSE /\ phase' = phase
                      /\ conns' = [conns EXCEPT ![token] = client_reregister(r.client)]
                      /\ UNCHANGED <<rcache, tpool>>
    /\ UNCHANGED <<routes, order, default, lstArmed, channel, accepted, rt>>

\* writable on a connection: Client::send and the match on its result
ready_writable(token) ==
    LET c == [conns[token] EXCEPT !.armed = {}]
    IN  \E ws \in (IF c.o_buf = <<>> THEN {<<>>} ELSE WriteResults(Len(c.o_buf))) :
            /\ c.o_buf # <<>> => SendEnds(c, ws)
            /\ LET r == send(c, ws)
               IN  /\ conns' = IF r.ret THEN reset_connection(conns, token)
                               ELSE [conns EXCEPT ![token] = client_reregister(r.client)]
                   /\ lastOp' = Op("send", token,
                                   [id |-> c.id, had |-> c.o_buf, wrote |-> r.wrote,
                                    left |-> r.client.o_buf, end |-> r.end])
            /\ UNCHANGED <<phase, routes, order, rcache, default, lstArmed, tpool,
                           channel, accepted, rt>>

\* an event loop whose callbacks run the handler themselves: no event is
\* taken while a request is being handled
polling_after_handlers(ph, pool) == ph = "running" /\ pool = {}

\* evl.run: the loop takes the next event or message once the previous
\* callback has returned; tpool.execute queues the closure and returns, so
\* the closures pending on the pool do not hold the loop
polling(ph, pool) == ph = "running"

\* Handler::ready
ready(token, evs) ==
    /\ polling(phase, tpool)
    /\ IF token = ListenerToken
       THEN lstArmed /\ evs \in EventSets({"readable"})
       ELSE /\ token \in DOMAIN conns
            /\ conns[token].armed # {}
            /\ evs \in EventSets(conns[token].armed)
    /\ IF "error" \in evs \/ "hup" \in evs THEN ready_hup(token)
       ELSE IF "readable" \in evs
       THEN (IF token = ListenerToken THEN ready_accept ELSE ready_readable(token))
       ELSE ready_writable(token)

\* Sender::send on the event loop's notify queue: the message is queued, or
\* handed back in Err(NotifyError::Full) when the queue is at capacity
tx_send(queue, msg) ==
    IF Len(queue) < NotifyCapacity
    THEN [ok |-> TRUE, queue |-> Append(queue, msg)]
    ELSE [ok |-> FALSE, queue |-> queue]

\* a worker runs the closure: handler(&req).gen_output(), then
\* "let _ = tx.send(..)"
worker(task) ==
    /\ phase \in {"running", "spinning"}
    /\ task \in tpool
    /\ \E out \in Outputs :
          channel' = tx_send(channel, [token |-> task.token, output |-> out,
                                      id |-> task.id]).queue
    /\ tpool' = tpool \ {task}
    /\ lastOp' = Op("worker", task.token, [id |-> task.id])
    /\ UNCHANGED <<phase, routes, order, rcache, default, conns, lstArmed,
                   accepted, rt>>

\* Canteen::get_client: [ok, client]; unwrap() of None unwinds
get_client(token) ==
    IF token \in DOMAIN conns
    THEN [ok |-> TRUE, client |-> conns[token]]
    ELSE [ok |-> FALSE, client |-> ClientNew(0)]

\* Handler::notify
notify ==
    /\ polling(phase, tpool)
    /\ channel # <<>>
    /\ LET msg == Head(channel)
           g == get_client(msg.token)
       IN  /\ IF g.ok
              THEN /\ conns' = [conns EXCEPT ![msg.token] =
                                   client_reregister([g.client EXCEPT
                                       !.o_buf = msg.output, !.src = msg.id])]
                   /\ phase' = phase
              ELSE /\ conns' = conns
                   /\ phase' = "panicked"
           /\ lastOp' = Op("notify", msg.token,
                           [id |-> msg.id, stale |-> msg.id \notin LiveIds])
    /\ channel' = Tail(channel)
    /\ UNCHANGED <<routes, order, rcache, default, lstArmed, tpool, accepted,
                   rt>>

\* Canteen::handle_request called on its own with a complete request
dispatch(token, path, method) ==
    /\ phase = "running"
    /\ LET hr == handle_request(token, 0, <<Chunk("full", path, method)>>)
       IN  /\ rcache' = hr.rcache
           /\ tpool' = tpool \cup {hr.task}
    /\ lastOp' = Op("dispatch", token, <<>>)
    /\ UNCHANGED <<phase, routes, order, default, conns, lstArmed,
                   channel, accepted, rt>>

(***************************************************************************)
(* One route on its own: a template is compiled by Route::new, then a path *)
(* is matched and parsed against it.                                       *)
(***************************************************************************)
\* "/", "/a", "a/", "//a//1/", "/a.1", "/.", "/<int:n>", "/a/<int:n>"
RouteTemplates ==
    {<<"/">>, <<"/", "a">>, <<"a", "/">>,
     <<"/", "/", "a", "/", "/", "1", "/">>,
     <<"/", "a", ".", "1">>, <<"/", ".">>,
     <<"/", "<", "i", "n", "t", ":", "n", ">">>,
     <<"/", "a", "/", "<", "i", "n", "t", ":", "n", ">">>}

InitRoute ==
    /\ phase = "setup"
    /\ routes = EmptyMap
    /\ order = <<>>
    /\ rcache = EmptyMap
    /\ default = "err_404"
    /\ conns = EmptyMap
    /\ lstArmed = FALSE
    /\ tpool = {}
    /\ channel = <<>>
    /\ accepted = 0
    /\ lastOp = Op("new", 0, <<>>)
    /\ \E template \in RouteTemplates, path \in Paths :
          rt = [pc |-> "new", template |-> template, path |-> path]

route_new ==
    /\ rt.pc = "new"
    /\ rt' = [pc |-> "compiled", template |-> rt.template, path |-> rt.path,
              route |-> RouteNew(rt.template, {"GET"}, "h1")]
    /\ UNCHANGED serverVars

route_match ==
    /\ rt.pc = "compiled"
    /\ rt' = [pc |-> "done", template |-> rt.template, path |-> rt.path,
              route |-> rt.route,
              matched |-> is_match(rt.route, [path |-> rt.path, method |-> "GET"]),
              parsed |-> parse(rt.route, rt.path)]
    /\ UNCHANGED serverVars

NextRoute == route_new \/ route_match

SpecRoute == InitRoute /\ [][NextRoute]_vars

(***************************************************************************)
(* Route::static_file on its own: the request path is unescaped, split at  *)
(* the slashes and pushed chunk by chunk onto the working directory.  A    *)
(* file path is the sequence of its components.  An escape sequence of the *)
(* request path ("%2E") is one element of the string.                      *)
(***************************************************************************)
\* the characters static-file request paths are drawn from
StaticAlphabet == {"/", ".", "a", "%2E", "%2F"}

StaticPaths == UNION {[1..n -> StaticAlphabet] : n \in 0..MaxPathLen}

\* env::current_dir(): /srv/www
Cwd == <<<<"s", "r", "v">>, <<"w", "w", "w">>>>

\* Route::replace_escape: each escape sequence becomes the character it encodes
replace_escape(path) ==
    [i \in 1..Len(path) |->
        CASE path[i] = "%2E" -> "."
          [] path[i] = "%2F" -> "/"
          [] OTHER -> path[i]]

\* PathBuf::push: an absolute chunk replaces the path, any other is appended
push(fpath, chunk) ==
    IF chunk # <<>> /\ Head(chunk) = "/" THEN <<chunk>> ELSE Append(fpath, chunk)

\* the loop of static_file that skips only "" and "."
RECURSIVE static_file_keep_dotdot(_, _)
static_file_keep_dotdot(fpath, chunks) ==
    IF chunks = <<>> THEN fpath
    ELSE IF Head(chunks) = <<>> \/ Head(chunks) = <<".">>
    THEN static_file_keep_dotdot(fpath, Tail(chunks))
    ELSE static_file_keep_dotdot(push(fpath, Head(chunks)), Tail(chunks))

\* "for chunk in clean.split('/')": "", "." and ".." are skipped, the others
\* pushed
RECURSIVE static_file_fpath(_, _)
static_file_fpath(fpath, chunks) ==
    IF chunks = <<>> THEN fpath
    ELSE IF Head(chunks) = <<>> \/ Head(chunks) = <<".">>
              \/ Head(chunks) = <<".", ".">>
    THEN static_file_fpath(fpath, Tail(chunks))
    ELSE static_file_fpath(push(fpath, Head(chunks)), Tail(chunks))

\* File::open and read_to_end: the response code for each outcome
OpenResults == {"Ok", "ReadErr", "OpenErr"}

static_code(result) ==
    CASE result = "Ok" -> 200
      [] result = "ReadErr" -> 500
      [] result = "OpenErr" -> 404

InitStatic ==
    /\ phase = "setup"
    /\ routes = EmptyMap
    /\ order = <<>>
    /\ rcache = EmptyMap
    /\ default = "err_404"
    /\ conns = EmptyMap
    /\ lstArmed = FALSE
    /\ tpool = {}
    /\ channel = <<>>
    /\ accepted = 0
    /\ lastOp = Op("new", 0, <<>>)
    /\ \E path \in StaticPaths : rt = [pc |-> "request", path |-> path]

\* Route::static_file
static_file ==
    /\ rt.pc = "request"
    /\ \E result \in OpenResults :
          LET clean == replace_escape(rt.path)
          IN  rt' = [pc |-> "opened", path |-> rt.path, clean |-> clean,
                     fpath |-> static_file_fpath(Cwd, split(clean, <<>>)),
                     code |-> static_code(result)]
    /\ UNCHANGED serverVars

NextStatic == static_file

SpecStatic == InitStatic /\ [][NextStatic]_vars

(***************************************************************************)
(* Specifications.                                                         *)
(*   SpecRouter: registration, then resolution of requests.                *)
(*   Spec:       the reactor serving connections over the registrations of *)
(*               ServeRoutes.                                              *)
(***************************************************************************)
NextRouter ==
    \/ \E path \in Templates, mlist \in MethodLists, handler \in Handlers :
          add_route(path, mlist, handler)
    \/ \E handler \in DefaultHandlers : set_default(handler)
    \/ run
    \/ \E path \in ReqPaths, method \in Methods : dispatch(FirstToken, path, method)

SpecRouter == Init /\ [][NextRouter]_vars

\* cnt.add_route("/<int:n>", &[Method::Get], h1)
ServeRoutes ==
    add_route_loop(EmptyMap, <<"/", "<", "i", "n", "t", ":", "n", ">">>,
                   <<"GET">>, "h1").routes

\* the state run() starts the event loop in
InitServe ==
    /\ phase = "running"
    /\ routes = ServeRoutes
    /\ order \in Perms(DOMAIN routes)
    /\ rcache = EmptyMap
    /\ default = "err_404"
    /\ conns = EmptyMap
    /\ lstArmed = TRUE
    /\ tpool = {}
    /\ channel = <<>>
    /\ accepted = 0
    /\ lastOp = Op("run", 0, <<>>)
    /\ rt = Idle

Next ==
    \/ \E token \in ListenerToken..(FirstToken + SlabCap - 1),
          evs \in EventSets({"readable", "writable"}) : ready(token, evs)
    \/ \E task \in tpool : worker(task)
    \/ notify

Spec == InitServe /\ [][Next]_vars

\* Spec with its scheduling: a pool thread runs every queued closure, the
\* event loop delivers every queued message, and a socket registered for
\* writable gets its event
SpecLive ==
    /\ InitServe
    /\ [][Next]_vars
    /\ WF_vars(\E task \in tpool : worker(task))
    /\ WF_vars(notify)
    /\ \A token \in FirstToken..(FirstToken + SlabCap - 1) :
          WF_vars(ready(token, {"writable"}))

(***************************************************************************)
(* Claims about one route (SpecRoute).                                     *)
(***************************************************************************)
\* an optional single leading '-' followed by one or more digits
IsIntSegment(seg) ==
    LET d == IF seg # <<>> /\ seg[1] = "-" THEN Tail(seg) ELSE seg
    IN  d # <<>> /\ \A i \in 1..Len(d) : d[i] \in Digits

\* path is prefix, then seg, then at most one trailing slash
EndsWithSegment(path, prefix, seg) ==
    path = prefix \o seg \/ path = prefix \o seg \o <<"/">>

\* the segments a path could carry after prefix
SegmentsAfter(path, prefix) ==
    {seg \in {SubSeq(path, Len(prefix) + 1, n) : n \in Len(prefix)..Len(path)} :
        EndsWithSegment(path, prefix, seg)}

IntTemplatePrefix(template) ==
    IF template = <<"/", "<", "i", "n", "t", ":", "n", ">">> THEN <<"/">>
    ELSE <<"/", "a", "/">>

IntTemplates ==
    {<<"/", "<", "i", "n", "t", ":", "n", ">">>,
     <<"/", "a", "/", "<", "i", "n", "t", ":", "n", ">">>}

\* C9: for a template with an <int:n> placeholder, parse returns Some(n ->
\* segment) exactly when the segment is an optional single '-' followed by
\* digits, and None (is_match false) for every other segment.
C9_IntSegment ==
    (rt.pc = "done" /\ rt.template \in IntTemplates) =>
        LET ints == {seg \in SegmentsAfter(rt.path, IntTemplatePrefix(rt.template)) :
                        IsIntSegment(seg)}
        IN  IF ints # {}
            THEN /\ rt.matched
                 /\ rt.parsed.some
                 /\ rt.parsed.map[<<"n">>] \in ints
            ELSE ~rt.matched /\ rt.parsed = None

\* the literal segments of a template
Segments(template) == filter_nonempty(split(template, <<>>))

RECURSIVE Joined(_)
Joined(segs) ==
    IF segs = <<>> THEN <<>> ELSE <<"/">> \o Head(segs) \o Joined(Tail(segs))

LiteralTemplates == RouteTemplates \ IntTemplates

\* C10: a template of literal segments matches a path exactly when the
\* path's segments equal the template's character for character, with at
\* most one trailing slash; slashes and empty segments of the template do
\* not change what it matches.
C10_LiteralMatch ==
    (rt.pc = "done" /\ rt.template \in LiteralTemplates) =>
        LET canon == Joined(Segments(rt.template))
        IN  /\ rt.matched <=> (rt.path = canon \/ rt.path = canon \o <<"/">>)
            /\ rt.matched <=>
                  regex_is_match(RouteNew(canon, {"GET"}, "h1").matcher, rt.path)

(***************************************************************************)
(* Claims about the static-file handler (SpecStatic).                      *)
(***************************************************************************)
\* the segments of the unescaped request path that name something
NamedSegments(clean) ==
    LET segs == filter_nonempty(split(clean, <<>>))
        keep == {i \in 1..Len(segs) : segs[i] \notin {<<".">>, <<".", ".">>}}
        nth(k) == CHOOSE i \in keep : Cardinality({j \in keep : j < i}) = k - 1
    IN  [k \in 1..Cardinality(keep) |-> segs[nth(k)]]

\* the directory a file path resolves to: "." stays, ".." goes up
RECURSIVE Resolve(_, _)
Resolve(done, fpath) ==
    IF fpath = <<>> THEN done
    ELSE IF Head(fpath) = <<".">> THEN Resolve(done, Tail(fpath))
    ELSE IF Head(fpath) = <<".", ".">>
    THEN Resolve(IF done = <<>> THEN <<>> ELSE SubSeq(done, 1, Len(done) - 1),
                 Tail(fpath))
    ELSE Resolve(Append(done, Head(fpath)), Tail(fpath))

Within(dir, fpath) ==
    Len(fpath) >= Len(dir) /\ SubSeq(fpath, 1, Len(dir)) = dir

\* C11: the file static_file opens is the working directory followed only
\* by the request's non-empty segments other than "." and "..": no
\* component of it is "." or "..", and it resolves inside the working
\* directory.
C11_StaticInsideCwd ==
    rt.pc = "opened" =>
        /\ rt.fpath = Cwd \o NamedSegments(rt.clean)
        /\ \A i \in 1..Len(rt.fpath) :
              /\ rt.fpath[i] \notin {<<>>, <<".">>, <<".", ".">>}
              /\ "/" \notin Range(rt.fpath[i])
        /\ Within(Cwd, Resolve(<<>>, rt.fpath))

\* a request that climbs out of the working directory by a ".." segment
\* written with an escape, and names a file there
C11_Witness ==
    /\ rt.pc = "opened"
    /\ rt.path = <<"%2E", ".", "/", "a">>
    /\ rt.fpath = Cwd \o <<<<"a">>>>

(***************************************************************************)
(* Claims about registration and resolution (SpecRouter).                  *)
(***************************************************************************)
Req(key) == [path |-> key.pathdef, method |-> key.method]

\* the registered routes that accept the request, whatever the order
Matching(key) == {rd \in DOMAIN routes : is_match(routes[rd], Req(key))}

\* what a from-scratch scan in iteration order ord selects
LinearScan(ord, key) ==
    LET idx == {i \in 1..Len(ord) : ord[i] \in Matching(key)}
    IN  IF idx = {} THEN NoRoute
        ELSE ord[CHOOSE i \in idx : \A j \in idx : i <= j]

\* C3: add_route panics when (template, method) is already registered;
\* otherwise it registers the handler under each method given and leaves
\* the other routes alone, so that a template registered under two methods
\* resolves, for a request of either method, to a route of that method with
\* the handler registered for it.
C3_DuplicateOrPerMethod ==
    /\ [][lastOp'.op = "add_route" =>
            LET a == lastOp'.arg
                new == {RouteDef(a.path, m) : m \in a.methods}
            IN  IF new \cap DOMAIN routes # {}
                THEN phase' = "panicked"
                ELSE /\ phase' = "setup"
                     /\ DOMAIN routes' = DOMAIN routes \cup new
                     /\ \A rd \in new : routes'[rd].handler = a.handler
                     /\ \A rd \in DOMAIN routes : routes'[rd] = routes[rd]]_vars
    /\ [](\A t \in tpool :
            /\ t.rd # NoRoute =>
                  /\ t.rd \in DOMAIN routes
                  /\ t.rd.method = t.key.method
                  /\ t.handler = routes[t.rd].handler
            /\ \A rd \in DOMAIN routes :
                  Matching(t.key) = {rd} => t.rd = rd)

\* a template registered under GET and POST with different handlers, and a
\* request of each method dispatched with the handler of its method
C3_Witness ==
    \E T \in Templates :
        /\ RouteDef(T, "GET") \in DOMAIN routes
        /\ RouteDef(T, "POST") \in DOMAIN routes
        /\ routes[RouteDef(T, "GET")].handler # routes[RouteDef(T, "POST")].handler
        /\ \A m \in Methods : \E t \in tpool :
              t.key.method = m /\ t.rd = RouteDef(T, m)

\* C4: every cache entry designates the route a from-scratch linear scan of
\* the registry selects for that path and method.
C4_CacheAgreesWithScan ==
    \A key \in DOMAIN rcache : rcache[key] = LinearScan(order, key)

\* a cache hit for a request that two registered routes match
C4_Witness ==
    \E t \in tpool :
        /\ t.hit
        /\ t.key \in DOMAIN rcache
        /\ Cardinality(Matching(t.key)) >= 2

HandlerBy(ord, key) ==
    IF LinearScan(ord, key) = NoRoute THEN default
    ELSE routes[LinearScan(ord, key)].handler

\* C5: for a fixed registration sequence a request always resolves to the
\* same handler: by the scan and by the cache in this run, and in any other
\* run of the same registrations, whose HashMap may iterate in any order.
C5_SameHandlerEveryRun ==
    \A t \in tpool :
        /\ t.handler = HandlerBy(order, t.key)
        /\ \A ord \in Perms(DOMAIN routes) : t.handler = HandlerBy(ord, t.key)

\* C8: a request no registered route matches is dispatched with the
\* configured default handler and the parameters the request was parsed
\* with, and has no entry in the resolution cache.
C8_NoMatchFallsBack ==
    \A t \in tpool :
        Matching(t.key) = {} =>
            /\ t.handler = default
            /\ t.params = None
            /\ t.rd = NoRoute
            /\ t.key \notin DOMAIN rcache

\* an unmatched request dispatched while routes are registered and
\* set_default has replaced err_404
C8_Witness ==
    \E t \in tpool :
        /\ Matching(t.key) = {}
        /\ routes # EmptyMap
        /\ rcache # EmptyMap
        /\ default = "h0"

\* C16: every key of the resolution cache maps to a key of the route
\* registry, so the registry lookup of a cache hit finds its route; an entry,
\* once added, is never removed or changed.
C16_CacheTargetsRegistered ==
    /\ [](\A key \in DOMAIN rcache : rcache[key] \in DOMAIN routes)
    /\ [][\A key \in DOMAIN rcache :
             key \in DOMAIN rcache' /\ rcache'[key] = rcache[key]]_vars

\* a cache hit served while the cache holds the resolutions of two requests
C16_Witness ==
    /\ Cardinality(DOMAIN rcache) >= 2
    /\ \E t \in tpool : t.hit /\ rcache[t.key] = t.rd /\ t.rd \in DOMAIN routes

\* C23: the route of a cache hit matches the request's path and method, so
\* parse returns Some(params), and the request is dispatched with the handler
\* and the parameters of the scan that created the cache entry.
C23_HitRepeatsScan ==
    \A t \in tpool :
        t.hit =>
            /\ t.rd = rcache[t.key]
            /\ is_match(routes[t.rd], Req(t.key))
            /\ t.params.some
            /\ t.handler = routes[t.rd].handler
            /\ \E m \in tpool :
                  /\ ~m.hit
                  /\ m.key = t.key
                  /\ m.rd = t.rd
                  /\ m.handler = t.handler
                  /\ m.params = t.params

\* GET /a resolved by the scan and again by the cache, with its parameter,
\* while the registry also holds a route that does not match it
C23_Witness ==
    \E t \in tpool, m \in tpool :
        /\ t.hit /\ ~m.hit
        /\ m.key = t.key
        /\ t.key.pathdef = <<"/", "a">>
        /\ t.params = Some((<<"n">> :> <<"a">>))
        /\ \E rd \in DOMAIN routes : ~is_match(routes[rd], Req(t.key))

\* a template with its leading, trailing and repeated slashes normalized
Normalized(template) == Joined(Segments(template))

\* C13: add_route aborts when the normalized template and the method equal
\* an already registered pair: templates that differ only in insignificant
\* slashes cannot both be registered for one method.
C13_NormalizedDuplicate ==
    [][lastOp'.op = "add_route" =>
          LET a == lastOp'.arg
          IN  (\E rd \in DOMAIN routes :
                  /\ rd.method \in a.methods
                  /\ Normalized(rd.pathdef) = Normalized(a.path))
              => phase' = "panicked"]_vars

(***************************************************************************)
(* Claims about the reactor (Spec).                                        *)
(***************************************************************************)
IsLive(id) == id \in LiveIds

\* C1: when a response does not fit in one socket write, the output buffer
\* keeps exactly the unsent suffix; when the socket then reports WouldBlock
\* the connection stays open with that remainder, armed for the next
\* writable event; a connection the server closes without a socket error
\* has had its whole response written, in order.
C1_PartialWriteResumes ==
    (lastOp.op = "send" /\ lastOp.arg.wrote # <<>>) =>
        LET a == lastOp.arg
            unsent == SubSeq(a.had, Len(a.wrote) + 1, Len(a.had))
        IN  /\ a.wrote = SubSeq(a.had, 1, Len(a.wrote))
            /\ a.end = "WouldBlock" =>
                  /\ lastOp.tok \in DOMAIN conns
                  /\ conns[lastOp.tok].id = a.id
                  /\ conns[lastOp.tok].o_buf = unsent
                  /\ "writable" \in conns[lastOp.tok].armed
            /\ (a.end # "Err" /\ ~IsLive(a.id)) => a.wrote = a.had

\* C2: the bytes in a connection's output buffer are the response to a
\* request of that very connection, also when slab tokens are reused.
C2_RoutedToOrigin ==
    \A t \in DOMAIN conns : conns[t].src \in {0, conns[t].id}

\* C6: after malformed bytes (not UTF-8, unparseable, truncated) or a
\* disconnect seen by read() the connection is gone from the table and the
\* reactor is still running.
C6_MalformedCloses ==
    (/\ lastOp.op = "readable"
     /\ \/ lastOp.arg.kind \in {"bad", "junk", "head"}
        \/ lastOp.arg.end = "Eof") =>
        /\ phase = "running"
        /\ ~IsLive(lastOp.arg.id)

\* C7: a response notified for a connection that is already closed is
\* discarded: the reactor keeps running and no connection changes.
C7_StaleNotifyDiscarded ==
    [][(lastOp'.op = "notify" /\ lastOp'.arg.stale) =>
          (phase' = "running" /\ conns' = conns)]_vars

\* C14: whatever the event flags and the outcomes of receive and send,
\* ready leaves the socket of its token closed or armed again: while the
\* reactor runs, the listener and every connection in the table have a
\* pending one-shot registration.
C14_ArmedOrClosed ==
    phase = "running" =>
        /\ lstArmed
        /\ \A t \in DOMAIN conns : conns[t].armed # {}

\* C15: a readable event that leaves the input buffer short of a complete
\* request dispatches nothing and leaves the connection open, its bytes kept
\* and readable interest armed, so that later events complete the request.
C15_IncompleteKeepsReading ==
    (/\ lastOp.op = "readable"
     /\ lastOp.arg.end = "WouldBlock"
     /\ lastOp.arg.kind \in {"none", "head"}) =>
        /\ phase = "running"
        /\ lastOp.tok \in DOMAIN conns
        /\ conns[lastOp.tok].id = lastOp.arg.id
        /\ "readable" \in conns[lastOp.tok].armed
        /\ \A t \in tpool : t.id # lastOp.arg.id

\* s is what is left of t after some of its first bytes are gone
IsSuffix(s, t) == \E k \in 0..Len(t) : s = SubSeq(t, k + 1, Len(t))

\* C17: while requests are dispatched and their handlers have not returned,
\* the reactor still accepts a connection when the listener is ready and
\* serves the readable and writable events of every armed connection; new
\* bytes enter an output buffer by notify alone.
C17_ReactorNotBlocked ==
    /\ []((phase = "running" /\ tpool # {}) =>
            /\ (lstArmed /\ (accepted < MaxAccepts \/ FreeTokens = {})) =>
                  ENABLED (ready(ListenerToken, {"readable"})
                              /\ lastOp'.arg.got)
            /\ \A t \in DOMAIN conns :
                  \A ev \in conns[t].armed \cap {"readable", "writable"} :
                      ENABLED ready(t, {ev}))
    /\ [][\A t \in DOMAIN conns \cap DOMAIN conns' :
             (conns'[t].id = conns[t].id
                 /\ ~IsSuffix(conns'[t].o_buf, conns[t].o_buf))
             => lastOp'.op = "notify"]_vars

\* a connection is accepted while the request of another is with its handler
C17_Witness ==
    /\ lastOp.op = "accept"
    /\ lastOp.tok \in DOMAIN conns
    /\ \E t \in tpool : t.id \in LiveIds /\ t.id # conns[lastOp.tok].id

\* C18: a readable event of the listener accepts one connection, puts it in
\* the table armed for readable, and re-arms the listener before ready
\* returns; when accept yields no socket the listener is re-armed all the
\* same and the reactor runs on.
C18_ListenerRearmed ==
    lastOp.op = "accept" =>
        /\ phase = "running"
        /\ lstArmed
        /\ lastOp.arg.got =>
              /\ lastOp.tok \in DOMAIN conns
              /\ conns[lastOp.tok].id = accepted
              /\ "readable" \in conns[lastOp.tok].armed

\* C19: a connection has at most one request in flight: when a request of
\* a connection is dispatched, no earlier request of that connection is with
\* the pool or on its way back to the reactor.
C19_OneRequestInFlight ==
    [][(lastOp'.op = "readable" /\ lastOp'.arg.disp) =>
          /\ \A t \in tpool : t.id # lastOp'.arg.id
          /\ \A i \in 1..Len(channel) : channel[i].id # lastOp'.arg.id]_vars

\* a connection served a writable event while its request is with the pool
C19_Witness ==
    /\ lastOp.op = "send"
    /\ lastOp.arg.end = "Empty"
    /\ \E t \in tpool : t.id = lastOp.arg.id /\ t.token = lastOp.tok

\* the request of connection id is with the pool
Dispatched(id) == \E t \in tpool : t.id = id

\* a call of send has just written all of connection id's output buffer
Drained(id) ==
    /\ lastOp.op = "send"
    /\ lastOp.arg.id = id
    /\ lastOp.arg.end = "Full"
    /\ lastOp.arg.wrote = lastOp.arg.had

\* the peer of connection id neither hangs up nor breaks the socket
ClientKeepsReading(id) ==
    [](/\ ~(lastOp.op = "hup" /\ lastOp.arg.id = id)
       /\ ~(lastOp.op = "send" /\ lastOp.arg.id = id /\ lastOp.arg.end = "Err"))

\* C20: with handlers that return, sockets that become writable and a
\* client that keeps reading, a connection whose request was dispatched
\* eventually has its whole response written and is then removed from the
\* table; no connection stays in the table once its buffer is drained.
C20_ResponseWrittenThenClosed ==
    /\ []((lastOp.op = "send" /\ lastOp.arg.end = "Full")
             => ~IsLive(lastOp.arg.id))
    /\ \A id \in 1..MaxAccepts :
          ([](phase = "running") /\ ClientKeepsReading(id))
              => (Dispatched(id) ~> (Drained(id) /\ ~IsLive(id)))

\* C21: Client::receive returns on every readable event, whether the socket
\* would block, is at end of stream or fails, and leaves the connection's
\* interest set without readable and with writable.
C21_ReceiveTerminates ==
    lastOp.op = "readable" =>
        /\ phase # "spinning"
        /\ lastOp.tok \in DOMAIN conns
        /\ "readable" \notin conns[lastOp.tok].events
        /\ "writable" \in conns[lastOp.tok].events

\* C22: a writable event on a connection whose output buffer is empty
\* writes nothing and leaves the connection in the table, re-armed with the
\* interest set it had; a connection with an empty output buffer leaves the
\* table by an error or hang-up event only.
C22_EmptyWritableKeepsOpen ==
    /\ [][(lastOp'.op = "send" /\ lastOp'.arg.had = <<>>) =>
             LET t == lastOp'.tok
             IN  /\ t \in DOMAIN conns'
                 /\ conns'[t].id = conns[t].id
                 /\ conns'[t].events = conns[t].events
                 /\ conns'[t].armed = conns[t].events
                 /\ conns'[t].o_buf = <<>>
                 /\ lastOp'.arg.wrote = <<>>]_vars
    /\ [][\A t \in DOMAIN conns :
             (conns[t].o_buf = <<>>
                 /\ (t \notin DOMAIN conns' \/ conns'[t].id # conns[t].id))
             => lastOp'.op = "hup"]_vars

\* a connection whose request is with the pool has had a writable event and
\* is still in the table, armed for hang-up and writable
C22_Witness ==
    /\ lastOp.op = "send"
    /\ lastOp.arg.had = <<>>
    /\ Dispatched(lastOp.arg.id)
    /\ lastOp.tok \in DOMAIN conns
    /\ conns[lastOp.tok].armed = {"hup", "writable"}

\* C24: the connections in the table have pairwise distinct tokens, none of
\* them the listener's, and are never more than the slab holds; an accept
\* that finds the table full adds no connection and changes none.
C24_TableWithinSlab ==
    /\ [](/\ ListenerToken \notin DOMAIN conns
          /\ DOMAIN conns \subseteq FirstToken..(FirstToken + SlabCap - 1)
          /\ Cardinality(DOMAIN conns) <= SlabCap
          /\ \A t, u \in DOMAIN conns : conns[t].id = conns[u].id => t = u)
    /\ [][(lastOp'.op = "accept" /\ Cardinality(DOMAIN conns) = SlabCap)
             => conns' = conns]_vars

\* a connection has been accepted and dropped because the table was full
C24_Witness ==
    /\ lastOp.op = "accept"
    /\ lastOp.arg.got /\ lastOp.arg.full
    /\ Cardinality(DOMAIN conns) = SlabCap

\* C12: no dispatched request is dropped: when the handler of a request
\* returns, exactly one (token, bytes) message for it is queued for the
\* reactor's notify, however many are pending.
C12_NoRequestDropped ==
    [][\A t \in tpool :
          t \notin tpool' =>
              /\ Len(channel') = Len(channel) + 1
              /\ channel'[Len(channel')].token = t.token
              /\ channel'[Len(channel')].id = t.id]_vars

=============================================================================
